---- MODULE Spec2Model ----
(***************************************************************************)
(* The /transcribe request pipeline of src/api.py and the process-wide     *)
(* model cache behind get_model.                                           *)
(*                                                                         *)
(* transcribe is an `async def` handler served by one uvicorn event loop   *)
(* (api.py:192).  A coroutine runs without interruption between two        *)
(* awaits, and the handler's only await is `await file.read()` (api.py:99),*)
(* so the variable `loop` names the request whose code the loop thread is  *)
(* executing; it is released at that await and when the handler returns.   *)
(***************************************************************************)
EXTENDS Integers, Sequences, FiniteSets, TLC

\* ------------------------------------------------------------------ bounds
NumRequests == 2

Requests == 1..NumRequests

\* ------------------------------------------------------- program constants
DEVICE == "cpu"
COMPUTE_TYPE == "int8"
DEFAULT_MODEL == "base"

\* Optional[T]: None is the empty tuple, a value v is <<v>>.
None == <<>>
Some(v) == <<v>>

\* Python truthiness of an Optional[str]: None and "" are falsy.
Truthy(o) == o # None /\ o[1] # ""

\* ------------------------------------------------------------ input sets
Filenames == {None, Some(""), Some("a.wav")}
Models == {"base", "tiny"}
Languages == {Some("en")}
Tokens == {None, Some(""), Some("hf_x")}
MinSpeakers == {Some(1)}
MaxSpeakers == {None}

VARIABLES
    model_cache,   \* api.py:28  dict: model name -> handle
    load_calls,    \* number of whisperx.load_model invocations per name
    handles,       \* number of handles whisperx.load_model returned per name
    dirs,          \* temp directories that exist (one name per request)
    files,         \* scratch files that exist (one name per request)
    frame,         \* per request: the handler's arguments and locals
    response,      \* per request: HTTP status delivered, 0 = none yet
    loop           \* request the event loop is running, 0 = none

vars == <<model_cache, load_calls, handles, dirs, files, frame, response, loop>>

\* ------------------------------------------------------------- values
\* The handle whisperx.load_model(model_name, DEVICE, compute_type=...) builds.
load_model(model_name, device, compute_type) ==
    [model |-> model_name, device |-> device, compute_type |-> compute_type]

NoResult == [segments |-> "unset", word_segments |-> FALSE,
             language |-> None, speakers |-> FALSE]

NoBody == [success |-> FALSE, language |-> None,
           segments |-> "unset", word_segments |-> FALSE]

EmptyCache == [m \in {} |-> NoResult]

IdleFrame ==
    [pc |-> "idle",
     filename |-> None, model |-> DEFAULT_MODEL, language |-> None,
     align |-> TRUE, diarize |-> FALSE, hf_token |-> None,
     min_speakers |-> None, max_speakers |-> None,
     result |-> NoResult, transcribed |-> NoResult,
     detected_language |-> None,
     status |-> 0, body |-> NoBody, raised |-> {}, trace |-> <<>>]

Init ==
    /\ model_cache = EmptyCache
    /\ load_calls = [m \in Models |-> 0]
    /\ handles = [m \in Models |-> 0]
    /\ dirs = {}
    /\ files = {}
    /\ frame = [r \in Requests |-> IdleFrame]
    /\ response = [r \in Requests |-> 0]
    /\ loop = 0

\* ------------------------------------------------ the handler's decisions
\* Variant: only a missing filename is rejected, an empty one is let through.
NoFileNoneOnly(filename) == filename = None

\* api.py:86  `if not file.filename`
NoFile(filename) == ~Truthy(filename)

\* Variant: only a missing token is rejected, an empty one is let through.
MissingTokenNoneOnly(diarize, hf_token) == diarize /\ hf_token = None

\* api.py:89  `if diarize and not hf_token`
MissingToken(diarize, hf_token) == diarize /\ ~Truthy(hf_token)

\* Variant: the membership test is dropped, every call loads.
NeedsLoadAlways(cache, model_name) == TRUE

\* api.py:33  `if model_name not in model_cache`
NeedsLoad(cache, model_name) == model_name \notin DOMAIN cache

\* Variant: a one-slot cache, storing a handle evicts the others.
CachePutEvict(cache, model_name, h) == [m \in {model_name} |-> h]

\* api.py:35  `model_cache[model_name] = <handle>`
CachePut(cache, model_name, h) ==
    [m \in DOMAIN cache \cup {model_name} |->
        IF m = model_name THEN h ELSE cache[m]]

\* Variant: a failed load leaves a placeholder entry behind.
CacheAfterLoadPoison(cache, model_name, loaded) ==
    CachePut(cache, model_name,
             IF loaded THEN load_model(model_name, DEVICE, COMPUTE_TYPE)
             ELSE load_model(model_name, "none", "none"))

\* Variant: the handle is stored under the default name, not the requested one.
CacheAfterLoadDefaultKey(cache, model_name, loaded) ==
    IF loaded
    THEN CachePut(CachePut(cache, model_name,
                           load_model(model_name, DEVICE, COMPUTE_TYPE)),
                  DEFAULT_MODEL, load_model(model_name, DEVICE, COMPUTE_TYPE))
    ELSE cache

\* api.py:35-39  the assignment runs only when whisperx.load_model returned;
\* when it raised, the dict is left as it was.
CacheAfterLoad(cache, model_name, loaded) ==
    IF loaded
    THEN CachePut(cache, model_name, load_model(model_name, DEVICE, COMPUTE_TYPE))
    ELSE cache

\* Exceptions the try block can see.
PlainException == [kind |-> "Exception", status_code |-> 0]
HTTPException(code) == [kind |-> "HTTPException", status_code |-> code]

\* api.py:163-166  `except HTTPException: raise` keeps the status code,
\* `except Exception` turns everything else into a 500.
ExceptStatus(exc) ==
    IF exc.kind = "HTTPException" THEN exc.status_code ELSE 500

\* api.py:117  `if align and result.get("segments")`
AlignRuns(align, result) == align /\ result.segments # "empty"

\* api.py:137  `if diarize and hf_token`
DiarizeRuns(diarize, hf_token) == diarize /\ Truthy(hf_token)

\* Variant: an alignment failure propagates to the outer handler.
AlignFailureFatal(f) ==
    [f EXCEPT !.status = 500, !.pc = "finally"]

\* Variant: an alignment failure retries from the decoding step.
AlignFailureRetry(f) == [f EXCEPT !.pc = "load_audio"]

\* api.py:133-134  the alignment stage's own handler swallows the exception.
AlignFailure(f) == [f EXCEPT !.pc = "diarize"]

\* Variant: the directory is left in place.
RemoveDirNever(ds, d) == ds

\* api.py:169-172  the finally block.
RemoveFile(fs, path) == fs \ {path}
RemoveDir(ds, d) == ds \ {d}

\* A request-fatal exception inside the try block: control goes to the
\* except clauses (163-166) and then to the finally block.
Raise(f, exc) == [f EXCEPT !.status = ExceptStatus(exc), !.pc = "finally"]

\* Variant: a diarization failure is skipped, as an alignment failure is.
DiarizeFailureSkipped(f) == [f EXCEPT !.pc = "assemble"]

\* api.py:152-154  the diarization stage's handler raises HTTPException(500).
DiarizeFailure(f) == Raise(f, HTTPException(500))

\* The call that raised is remembered in the frame (the `e` of the handlers).
Raised(f, call) == [f EXCEPT !.raised = @ \cup {call}]

Enter(f, stage) == [f EXCEPT !.trace = Append(@, stage)]

\* Variant: a plain `def` handler, which FastAPI runs on pool threads.
RunsInThreadPool == FALSE

\* api.py:61-62  `async def transcribe`: the handler is a coroutine of the
\* server's event loop, so one request's code runs at a time between awaits.
RunsOnEventLoop == TRUE

\* the loop thread is executing request r
Running(r) == RunsOnEventLoop => loop = r

\* the loop thread is free to start or resume a coroutine
LoopIdle == RunsOnEventLoop => loop = 0

\* ------------------------------------------------------------- actions
\* A request reaches the handler: FastAPI binds the form fields (api.py:62-71)
\* and the event loop starts the coroutine.  Requests are numbered in the
\* order they start.
Start(r) ==
    /\ LoopIdle
    /\ frame[r].pc = "idle"
    /\ \A q \in Requests : q < r => frame[q].pc # "idle"
    /\ \E fn \in Filenames, m \in Models, lang \in Languages, al \in BOOLEAN,
          di \in BOOLEAN, tok \in Tokens, mn \in MinSpeakers, mx \in MaxSpeakers :
        frame' = [frame EXCEPT ![r] =
            [IdleFrame EXCEPT !.pc = "validate", !.filename = fn, !.model = m,
                              !.language = lang, !.align = al, !.diarize = di,
                              !.hf_token = tok, !.min_speakers = mn,
                              !.max_speakers = mx]]
    /\ loop' = r
    /\ UNCHANGED <<model_cache, load_calls, handles, dirs, files, response>>

\* api.py:86-93  both checks; they run before the try block, so the raised
\* HTTPException(400) leaves the handler directly.
Validate(r) ==
    /\ Running(r)
    /\ frame[r].pc = "validate"
    /\ LET f == Enter(frame[r], "validate") IN
       IF NoFile(f.filename) \/ MissingToken(f.diarize, f.hf_token)
       THEN frame' = [frame EXCEPT ![r] = [f EXCEPT !.status = 400, !.pc = "return"]]
       ELSE frame' = [frame EXCEPT ![r] = [f EXCEPT !.pc = "mkdtemp"]]
    /\ UNCHANGED <<model_cache, load_calls, handles, dirs, files, response, loop>>

\* api.py:95-99  tempfile.mkdtemp(), the scratch path, and the suspension at
\* `await file.read()`.
Mkdtemp(r) ==
    /\ Running(r)
    /\ frame[r].pc = "mkdtemp"
    /\ dirs' = dirs \cup {r}
    /\ frame' = [frame EXCEPT ![r] = [Enter(@, "persist") EXCEPT !.pc = "read"]]
    /\ loop' = 0
    /\ UNCHANGED <<model_cache, load_calls, handles, files, response>>

\* api.py:99  the read completes (or raises) and the coroutine is resumed.
Read(r) ==
    /\ LoopIdle
    /\ frame[r].pc = "read"
    /\ loop' = r
    /\ \E ok \in BOOLEAN :
        frame' = [frame EXCEPT ![r] =
            IF ok THEN [@ EXCEPT !.pc = "write"]
            ELSE Raise(Raised(@, "read"), PlainException)]
    /\ UNCHANGED <<model_cache, load_calls, handles, dirs, files, response>>

\* api.py:100-101  open() may raise before the file exists, f.write() after.
WriteFile(r) ==
    /\ Running(r)
    /\ frame[r].pc = "write"
    /\ \E out \in {"ok", "open raises", "write raises"} :
        /\ files' = IF out = "open raises" THEN files ELSE files \cup {r}
        /\ frame' = [frame EXCEPT ![r] =
              IF out = "ok" THEN [@ EXCEPT !.pc = "get_model"]
              ELSE Raise(Raised(@, "write"), PlainException)]
    /\ UNCHANGED <<model_cache, load_calls, handles, dirs, response, loop>>

\* api.py:104 and 33, 40  get_model(model): the membership test, and the
\* return of the cached handle when the name is there.
GetModel(r) ==
    /\ Running(r)
    /\ frame[r].pc = "get_model"
    /\ LET f == Enter(frame[r], "acquire") IN
       frame' = [frame EXCEPT ![r] =
          IF NeedsLoad(model_cache, f.model)
          THEN [f EXCEPT !.pc = "load_model"]
          ELSE [f EXCEPT !.pc = "load_audio"]]
    /\ UNCHANGED <<model_cache, load_calls, handles, dirs, files, response, loop>>

\* api.py:34-40  whisperx.load_model(...) returns a handle, which is stored
\* and returned, or raises.
LoadModel(r) ==
    /\ Running(r)
    /\ frame[r].pc = "load_model"
    /\ LET f == frame[r]
           m == f.model IN
       \E loaded \in BOOLEAN :
            /\ load_calls' = [load_calls EXCEPT ![m] = @ + 1]
            /\ handles' = [handles EXCEPT ![m] = IF loaded THEN @ + 1 ELSE @]
            /\ model_cache' = CacheAfterLoad(model_cache, m, loaded)
            /\ frame' = [frame EXCEPT ![r] =
                  IF loaded THEN [f EXCEPT !.pc = "load_audio"]
                  ELSE Raise(Raised(f, "load_model"), PlainException)]
    /\ UNCHANGED <<dirs, files, response, loop>>

\* api.py:105  whisperx.load_audio(temp_path)
LoadAudio(r) ==
    /\ Running(r)
    /\ frame[r].pc = "load_audio"
    /\ \E ok \in BOOLEAN :
        frame' = [frame EXCEPT ![r] =
            IF ok THEN [Enter(@, "transcribe") EXCEPT !.pc = "transcribe"]
            ELSE Raise(Raised(Enter(@, "transcribe"), "load_audio"), PlainException)]
    /\ UNCHANGED <<model_cache, load_calls, handles, dirs, files, response, loop>>

\* api.py:108-114  whisper_model.transcribe(...) and detected_language.
Transcribe(r) ==
    /\ Running(r)
    /\ frame[r].pc = "transcribe"
    /\ \E out \in {"raises", "empty", "raw"} :
        frame' = [frame EXCEPT ![r] =
            IF out = "raises" THEN Raise(Raised(@, "transcribe"), PlainException)
            ELSE LET lang == IF @.language = None THEN Some("en") ELSE @.language
                     res == [segments |-> out, word_segments |-> FALSE,
                             language |-> lang, speakers |-> FALSE]
                 IN [@ EXCEPT !.result = res, !.transcribed = res,
                              !.detected_language = lang, !.pc = "align"]]
    /\ UNCHANGED <<model_cache, load_calls, handles, dirs, files, response, loop>>

\* api.py:116-134  the alignment stage.
Align(r) ==
    /\ Running(r)
    /\ frame[r].pc = "align"
    /\ LET f == frame[r] IN
       IF AlignRuns(f.align, f.result)
       THEN \E out \in {"load_align_model", "align", "ok"} :
            frame' = [frame EXCEPT ![r] =
                IF out = "ok"
                THEN [Enter(f, "align") EXCEPT
                        !.result = [segments |-> "aligned", word_segments |-> TRUE,
                                    language |-> None, speakers |-> FALSE],
                        !.pc = "diarize"]
                ELSE AlignFailure(Raised(Enter(f, "align"), out))]
       ELSE frame' = [frame EXCEPT ![r] = [f EXCEPT !.pc = "diarize"]]
    /\ UNCHANGED <<model_cache, load_calls, handles, dirs, files, response, loop>>

\* api.py:136-154  the diarization stage; its handler re-raises as a 500.
Diarize(r) ==
    /\ Running(r)
    /\ frame[r].pc = "diarize"
    /\ LET f == frame[r] IN
       IF DiarizeRuns(f.diarize, f.hf_token)
       THEN \E ok \in BOOLEAN :
            frame' = [frame EXCEPT ![r] =
                IF ok
                THEN [Enter(f, "diarize") EXCEPT !.result.speakers = TRUE,
                                                 !.pc = "assemble"]
                ELSE DiarizeFailure(Raised(Enter(f, "diarize"), "diarize"))]
       ELSE frame' = [frame EXCEPT ![r] = [f EXCEPT !.pc = "assemble"]]
    /\ UNCHANGED <<model_cache, load_calls, handles, dirs, files, response, loop>>

\* api.py:156-161  the JSONResponse (status 200) is built, then finally runs.
Assemble(r) ==
    /\ Running(r)
    /\ frame[r].pc = "assemble"
    /\ LET f == Enter(frame[r], "assemble") IN
       frame' = [frame EXCEPT ![r] =
          [f EXCEPT
              !.status = 200,
              !.body = [success |-> TRUE, language |-> f.detected_language,
                        segments |-> f.result.segments,
                        word_segments |-> f.result.word_segments],
              !.pc = "finally"]]
    /\ UNCHANGED <<model_cache, load_calls, handles, dirs, files, response, loop>>

\* api.py:168-172
Finally(r) ==
    /\ Running(r)
    /\ frame[r].pc = "finally"
    /\ files' = RemoveFile(files, r)
    /\ dirs' = RemoveDir(dirs, r)
    /\ frame' = [frame EXCEPT ![r] = [Enter(@, "cleanup") EXCEPT !.pc = "return"]]
    /\ UNCHANGED <<model_cache, load_calls, handles, response, loop>>

\* The handler returns or raises to the framework: the response goes out,
\* the coroutine's frame is gone and the loop is free.
Return(r) ==
    /\ Running(r)
    /\ frame[r].pc = "return"
    /\ response' = [response EXCEPT ![r] = frame[r].status]
    /\ frame' = [frame EXCEPT ![r] = [IdleFrame EXCEPT !.pc = "done"]]
    /\ loop' = 0
    /\ UNCHANGED <<model_cache, load_calls, handles, dirs, files>>

Next ==
    \E r \in Requests :
        \/ Start(r)
        \/ Validate(r)
        \/ Mkdtemp(r)
        \/ Read(r)
        \/ WriteFile(r)
        \/ GetModel(r)
        \/ LoadModel(r)
        \/ LoadAudio(r)
        \/ Transcribe(r)
        \/ Align(r)
        \/ Diarize(r)
        \/ Assemble(r)
        \/ Finally(r)
        \/ Return(r)

Spec == Init /\ [][Next]_vars

\* ================================================================ claims
\* The pipeline stages of one request, in their order.
StageIndex(stage) ==
    CASE stage = "validate"   -> 1
      [] stage = "persist"    -> 2
      [] stage = "acquire"    -> 3
      [] stage = "transcribe" -> 4
      [] stage = "align"      -> 5
      [] stage = "diarize"    -> 6
      [] stage = "assemble"   -> 7
      [] stage = "cleanup"    -> 8

InTrace(t, stage) == \E i \in 1..Len(t) : t[i] = stage

\* pcs at which the frame holds the handle get_model returned
HoldsModel == {"load_audio", "transcribe", "align", "diarize", "assemble"}

\* C1: for every model name at most one handle is ever constructed; once a
\* request holds the handle of a name exactly one was constructed, and when no
\* load of that name has failed, whisperx.load_model was invoked exactly once.
C1_LoadOnce ==
    \A m \in Models :
        /\ handles[m] <= 1
        /\ (\E r \in Requests : frame[r].pc \in HoldsModel /\ frame[r].model = m)
              => /\ handles[m] = 1
                 /\ (load_calls[m] = handles[m] => load_calls[m] = 1)

\* two requests naming "base", the first answered, the second past get_model,
\* and a single load
C1_Witness ==
    /\ response[1] = 200
    /\ frame[2].pc = "load_audio"
    /\ frame[2].model = "base"
    /\ load_calls = [m \in Models |-> IF m = "base" THEN 1 ELSE 0]
    /\ handles["base"] = 1

\* C2: once the handler of a request has finished (it is about to hand its
\* response over, or has), whatever the outcome, neither the scratch file nor
\* the temporary directory of that request exists.
C2_Cleanup ==
    \A r \in Requests :
        (frame[r].pc = "return" \/ response[r] # 0)
            => r \notin dirs /\ r \notin files

\* a request that created its scratch storage and failed with a 500
C2_Witness ==
    \E r \in Requests :
        /\ frame[r].pc = "return"
        /\ frame[r].status = 500
        /\ InTrace(frame[r].trace, "persist")
        /\ frame[r].raised = {"transcribe"}

\* C3: a request without a filename only ever validates and returns: every
\* step it takes leaves the cache, the load counters and the file system
\* alone, it is answered 400, and no other stage is entered.
C3_NoFilename400 ==
    [][\A r \in Requests :
          (loop = r /\ frame[r].filename \in {None, Some("")})
          => /\ model_cache' = model_cache
             /\ load_calls' = load_calls
             /\ handles' = handles
             /\ dirs' = dirs /\ files' = files
             /\ r \notin dirs /\ r \notin files
             /\ \/ /\ frame[r].pc = "validate"
                   /\ frame'[r].pc = "return"
                   /\ frame'[r].status = 400
                   /\ frame'[r].trace = <<"validate">>
                \/ /\ frame[r].pc = "return"
                   /\ frame[r].status = 400
                   /\ response'[r] = 400]_vars

\* an empty filename rejected while an earlier request is suspended in its
\* upload read
C3_Witness ==
    /\ frame[1].pc = "read"
    /\ frame[2].pc = "return"
    /\ frame[2].filename = Some("")
    /\ frame[2].status = 400

\* C4: a request with diarize set and a missing or empty hf_token only ever
\* validates and returns: it is answered 400, no stage after validation is
\* entered, and the cache, the load counters and the file system are untouched.
C4_DiarizeNoToken400 ==
    [][\A r \in Requests :
          (loop = r /\ frame[r].diarize /\ frame[r].hf_token \in {None, Some("")})
          => /\ model_cache' = model_cache
             /\ load_calls' = load_calls
             /\ handles' = handles
             /\ dirs' = dirs /\ files' = files
             /\ r \notin dirs /\ r \notin files
             /\ \/ /\ frame[r].pc = "validate"
                   /\ frame'[r].pc = "return"
                   /\ frame'[r].status = 400
                   /\ frame'[r].trace = <<"validate">>
                \/ /\ frame[r].pc = "return"
                   /\ frame[r].status = 400
                   /\ response'[r] = 400]_vars

\* a named file, diarize set, an empty token: rejected before any stage
C4_Witness ==
    \E r \in Requests :
        /\ frame[r].pc = "return"
        /\ frame[r].filename = Some("a.wav")
        /\ frame[r].diarize
        /\ frame[r].hf_token = Some("")
        /\ frame[r].status = 400

\* C5: a load that fails leaves the cache as it was, without an entry for
\* the name, and sends that request, and no other, to a 500; every get_model
\* for a name the cache lacks goes on to invoke the load routine.
C5_LoadFailure ==
    [][\A r \in Requests :
          LET m == frame[r].model IN
          /\ (loop = r /\ frame[r].pc = "get_model" /\ m \notin DOMAIN model_cache)
                => frame'[r].pc = "load_model"
          /\ (loop = r /\ frame[r].pc = "load_model")
                => /\ load_calls'[m] = load_calls[m] + 1
                   /\ handles'[m] = handles[m]
                         => /\ m \notin DOMAIN model_cache'
                            /\ model_cache' = model_cache
                            /\ frame'[r].pc = "finally"
                            /\ frame'[r].status = 500
                            /\ \A q \in Requests \ {r} : frame'[q] = frame[q]
                            /\ response' = response]_vars

\* a name whose first load failed and whose second load, by the next request,
\* succeeded
C5_Witness ==
    /\ load_calls["base"] = 2
    /\ handles["base"] = 1
    /\ response[1] = 500
    /\ frame[2].pc = "load_audio"
    /\ frame[2].model = "base"

\* C6: after a failed alignment the result carried forward is the
\* transcription result (plus speaker labels, if diarization ran), and a
\* request in which nothing else raised ends with a 200 built from the
\* unaligned segments.
C6_AlignNonFatal ==
    \A r \in Requests :
        (frame[r].raised \cap {"load_align_model", "align"} # {})
        => /\ frame[r].pc \in {"diarize", "assemble", "finally", "return"}
           /\ [frame[r].result EXCEPT !.speakers = FALSE] = frame[r].transcribed
           /\ (frame[r].pc \in {"finally", "return"} /\ "diarize" \notin frame[r].raised)
                 => /\ frame[r].status = 200
                    /\ frame[r].body.success
                    /\ frame[r].body.segments = "raw"
                    /\ ~frame[r].body.word_segments
                    /\ InTrace(frame[r].trace, "assemble")

\* align() raised, diarization ran, the request succeeded with raw segments
C6_Witness ==
    \E r \in Requests :
        /\ frame[r].pc = "return"
        /\ frame[r].raised = {"align"}
        /\ InTrace(frame[r].trace, "diarize")
        /\ frame[r].status = 200
        /\ frame[r].body.segments = "raw"

\* the calls whose failure is fatal for the request
FatalCalls == {"read", "write", "load_model", "load_audio", "transcribe", "diarize"}

FailedStage(call) ==
    CASE call \in {"read", "write"} -> "persist"
      [] call = "load_model" -> "acquire"
      [] call \in {"load_audio", "transcribe"} -> "transcribe"
      [] call = "diarize" -> "diarize"

\* C7: once a fatal call has raised, the request holds status 500, runs
\* nothing but the cleanup after the stage that failed, and is answered 500;
\* a request rejected by validation holds 400 and is answered 400.
C7_FatalAborts ==
    [][\A r \in Requests :
          /\ \A c \in frame'[r].raised \cap FatalCalls :
                /\ frame'[r].pc \in {"finally", "return"}
                /\ frame'[r].status = 500
                /\ ~InTrace(frame'[r].trace, "assemble")
                /\ \A i \in 1..Len(frame'[r].trace) :
                      \/ StageIndex(frame'[r].trace[i]) <= StageIndex(FailedStage(c))
                      \/ frame'[r].trace[i] = "cleanup"
          /\ (frame[r].raised \cap FatalCalls # {} /\ frame'[r].pc = "done")
                => response'[r] = 500
          /\ (frame[r].pc = "validate" /\ frame'[r].pc = "return")
                => frame'[r].status = 400
          /\ (frame[r].pc = "return" /\ frame[r].trace = <<"validate">>)
                => (frame'[r].pc = "done" => response'[r] = 400)]_vars

\* diarization raised after a successful alignment: a 500 with no response body
C7_Witness ==
    \E r \in Requests :
        /\ frame[r].pc = "return"
        /\ frame[r].raised = {"diarize"}
        /\ frame[r].result.segments = "aligned"
        /\ frame[r].status = 500
        /\ Len(frame[r].trace) = 7

\* C8: the stages a request has entered are in strictly increasing pipeline
\* order, starting with validation and with no earlier mandatory stage left
\* out, and a request that created scratch storage ends with the cleanup.
C8_StageOrder ==
    \A r \in Requests :
        LET t == frame[r].trace IN
        /\ \A i \in 1..Len(t) : \A j \in 1..Len(t) :
              i < j => StageIndex(t[i]) < StageIndex(t[j])
        /\ Len(t) > 0 => t[1] = "validate"
        /\ \A i \in 1..Len(t) :
              StageIndex(t[i]) \in 2..4 =>
                  i > 1 /\ StageIndex(t[i - 1]) = StageIndex(t[i]) - 1
        /\ \A i \in 1..Len(t) :
              StageIndex(t[i]) \in 5..7 => InTrace(t, "transcribe")
        /\ (frame[r].pc = "return" /\ InTrace(t, "persist")) => t[Len(t)] = "cleanup"
        /\ r \in dirs => (InTrace(t, "persist") /\ ~InTrace(t, "cleanup"))

\* a request that went through all eight stages
C8_Witness ==
    \E r \in Requests :
        frame[r].trace = <<"validate", "persist", "acquire", "transcribe",
                           "align", "diarize", "assemble", "cleanup">>

\* C9: no step removes or replaces an entry of the model cache.
C9_CacheGrows ==
    [][\A m \in DOMAIN model_cache :
          m \in DOMAIN model_cache' /\ model_cache'[m] = model_cache[m]]_vars

\* both names cached, one request answered 200 and a later one failing
C9_Witness ==
    /\ DOMAIN model_cache = Models
    /\ response[1] = 200
    /\ frame[2].pc = "return"
    /\ frame[2].status = 500

\* the model name of the request that takes the step
ActorModel == IF loop # 0 THEN frame[loop].model ELSE frame'[loop'].model

\* C10: a step of a request leaves the cache entries and load counters of
\* every name but its own as they were; every cache entry is the handle of
\* its own name, device and precision, carrying nothing of the request; and
\* what a request put on the file system is gone when it is answered.
C10_Frame ==
    [][/\ \A m \in Models \ {ActorModel} :
             /\ (m \in DOMAIN model_cache') = (m \in DOMAIN model_cache)
             /\ m \in DOMAIN model_cache => model_cache'[m] = model_cache[m]
             /\ load_calls'[m] = load_calls[m]
             /\ handles'[m] = handles[m]
       /\ \A m \in DOMAIN model_cache' :
             model_cache'[m] = [model |-> m, device |-> "cpu", compute_type |-> "int8"]
       /\ \A r \in Requests : response'[r] # 0 => r \notin dirs' /\ r \notin files']_vars

\* a request for "tiny" with a token, a language hint and speaker bounds has
\* succeeded after "base" was cached by an earlier one
C10_Witness ==
    /\ DOMAIN model_cache = Models
    /\ response[1] = 200
    /\ frame[2].pc = "return"
    /\ frame[2].status = 200
    /\ frame[2].model = "tiny"
    /\ frame[2].diarize /\ frame[2].hf_token = Some("hf_x")
    /\ frame[2].language = Some("en")
    /\ frame[2].min_speakers = Some(1)
    /\ dirs = {} /\ files = {}

====
